---- MODULE Spec2Model ----
(***************************************************************************)
(* Diwar Climb: the relay server (server.js), the browser network client   *)
(* (network.js), the character's animation selection (character.js) and    *)
(* the player's movement state (player.js).                                *)
(*                                                                         *)
(* Spec       : the server. Connections are accepted, emit message, close  *)
(*              and error events, and the broadcast timer ticks.           *)
(* ClientSpec : one network client. Its socket opens, receives server      *)
(*              messages, fails, closes and is replaced after the          *)
(*              reconnect delay; the game sends the local player's state   *)
(*              and frames call updateNetwork.                             *)
(* ClientLiveSpec : ClientSpec with the page's scheduling as fairness.     *)
(* ConnectionSpec : the client during one connection: messages and frames. *)
(* AnimationSpec : character.js. A model or the placeholder is loaded and  *)
(*              updateCharacterAnimation is called with movement states.   *)
(* PlayerSpec : player.js in the page as shipped. Frames run updatePlayer, *)
(*              the body collides, leaves the surface and is restarted.    *)
(***************************************************************************)
EXTENDS Integers, Sequences, FiniteSets, TLC

VARIABLES
    \* ---- server.js ----
    clients,        \* Map id -> [ws, position]                  (server.js:31)
    nextClientId,   \* next id to hand out                       (server.js:32)
    clientIdOf,     \* per accepted socket: the closure's clientId (server.js:43)
    readyState,     \* per accepted socket: ws readyState
    closeFired,     \* per accepted socket: 'close' was emitted
    errorFired,     \* per accepted socket: 'error' was emitted
    sent,           \* per accepted socket: the writes to it, in order, a run of
                    \* consecutive broadcast writes kept as one entry
    lastBroadcast,  \* the message the last run of the interval callback built,
                    \* NoMessage if it built none
    lastWrites,     \* the sockets the last run of the interval callback wrote to,
                    \* in the order of the writes
    lastPayload,    \* per accepted socket: payload of the last position message its
                    \* live session took, NoMessage before any and after removal
    errorLogged,    \* the message handler's catch has logged an error
    \* ---- network.js ----
    socketState,        \* readyState of the client's current socket, "NONE" before any
    clientId,           \* let clientId = null                   (network.js:10)
    isConnected,        \* let isConnected = false               (network.js:11)
    otherPlayers,       \* Map key -> position                   (network.js:14)
    otherPlayerMeshes,  \* Map key -> [mesh, lastAnimation]      (network.js:17)
    sceneMeshes,        \* the remote-player meshes in the THREE scene
    hasCharacter,       \* window.character is defined
    timers,             \* pending setTimeout(connectToServer, RECONNECT_DELAY) callbacks:
                        \* the seconds each has left, in the order they were set
    lastWrite,          \* the last message socket.send wrote to the current socket,
                        \* NoMessage when it has none
    idReceived,         \* the current socket has delivered its id message
    uncaught,           \* an exception has left a function the page calls
    frameRendered,      \* the last run of animate() reached renderer.render; TRUE
                        \* before any frame
    \* ---- network.js: what happened since the last onopen ----
    lastCleanup,        \* meshes the last cleanupOtherPlayers() took from the scene, -1
                        \* before any
    sinceClose,         \* seconds since the last onclose, -1 before any, counted up to
                        \* ReconnectDelay + 1
    attemptsSinceClose, \* connectToServer() calls in the first ReconnectDelay seconds
                        \* after the last onclose, counted up to 2
    attemptPhase,       \* connectToServer() calls, modulo 2
    discarded,          \* the last message handled was logged and dropped
    tornDown,           \* the last onclose was of a close the page asked for
    attemptWhileLive,   \* a connectToServer() call has begun while the socket of the
                        \* call before it was connecting or open
    \* ---- character.js ----
    characterAnimations,    \* let characterAnimations = {}: its keys, in the order they
                            \* were added                        (character.js:12)
    hasSetLoop,             \* the clip objects have setLoop: a THREE AnimationAction
                            \* does, an object of the placeholder does not
    currentAnimation,       \* let currentAnimation = 'idle'      (character.js:13)
    isCharacterInitialized, \* let isCharacterInitialized = false (character.js:14)
    targetAnimation,        \* the target the last updateCharacterAnimation call chose
                            \* from the flags, "none" when it chose none
    \* ---- player.js ----
    movementState,      \* let movementState = { moving: false, ... } (player.js:15)
    canJump,            \* let canJump = false                  (player.js:10)
    hasDoubleJump,      \* let hasDoubleJump = false            (player.js:11)
    bodyAnimation,      \* playerBody.animation: undefined or a string (player.js:186)
    onSurface,          \* the body stands on top of the ground or a tile
    firstJumpFrom       \* where the last handleInput() started a first jump:
                        \* "surface", "air", or "none" when it started none

serverVars == <<clients, nextClientId, clientIdOf, readyState, closeFired, errorFired,
                sent, lastBroadcast, lastWrites, lastPayload, errorLogged>>
clientVars == <<socketState, clientId, isConnected, otherPlayers, otherPlayerMeshes,
                sceneMeshes, hasCharacter, timers, lastWrite, idReceived, uncaught, frameRendered,
                lastCleanup, sinceClose, attemptsSinceClose, attemptPhase, discarded,
                tornDown, attemptWhileLive>>
gameVars == <<characterAnimations, hasSetLoop, currentAnimation, isCharacterInitialized,
              targetAnimation, movementState, canJump, hasDoubleJump, bodyAnimation,
              onSurface, firstJumpFrom>>
vars == <<serverVars, clientVars, gameVars>>

----------------------------------------------------------------------------
(* Bounds *)

MaxConns == 2       \* sockets the server accepts in one run
MaxClips == 2       \* animation clips in a model file

----------------------------------------------------------------------------
(* Program constants *)

\* const RECONNECT_DELAY = 3000, in seconds
ReconnectDelay == 3

----------------------------------------------------------------------------
(* JSON values *)

Undefined == [t |-> "undefined"]
JNull     == [t |-> "null"]
NoMessage == [type |-> "none"]

\* A position object as network.js sendPlayerPosition builds it.
WalkState == [t |-> "obj", x |-> 1, y |-> 2, z |-> 3, rotation |-> 0, animation |-> "walk"]

\* position: { x: 0, y: 0, z: 0, rotation: 0, animation: 'idle' }
InitialPosition == [t |-> "obj", x |-> 0, y |-> 0, z |-> 0, rotation |-> 0, animation |-> "idle"]

PositionObjects == {WalkState}

\* What a client can put on the wire: text that is no JSON, JSON that is not an
\* object, an object of another type, a position message without its payload, and a
\* position message with an object payload.
InboundMessages ==
    {[kind |-> "garbage"],
     [kind |-> "json", data |-> JNull],
     [kind |-> "json", data |-> [t |-> "obj", type |-> "chat"]],
     [kind |-> "json", data |-> [t |-> "obj", type |-> "position"]]}
    \cup {[kind |-> "json", data |-> [t |-> "obj", type |-> "position", position |-> p]] :
            p \in PositionObjects}

\* obj.f in JavaScript: undefined when the property is absent.
Get(obj, f) == IF f \in DOMAIN obj THEN obj[f] ELSE Undefined

\* An object property key is a string.
Key(id) == ToString(id)

\* JSON.stringify of an object: a property whose value is undefined is left out.
Stringify(obj) == [k \in {j \in DOMAIN obj : obj[j] # Undefined} |-> obj[k]]

----------------------------------------------------------------------------
(* server.js *)

Conns == 1..Len(clientIdOf)

\* JSON.stringify({ type: 'id', id: clientId })
IdMessage(id) == [type |-> "id", id |-> id]

\* Variant: the id is taken from the size of the registry.
AllocateIdBySize(next, cl) == Cardinality(DOMAIN cl) + 1

\* const clientId = nextClientId++
AllocateId(next, cl) == next

\* clients.set(clientId, { ws: socket, position: {...} })
Register(cl, id, socket) ==
    [k \in DOMAIN cl \cup {id} |->
        IF k = id THEN [ws |-> socket, position |-> InitialPosition] ELSE cl[k]]

\* Variant: the handler registers the session and sends no id message.
ConnectionWithoutId ==
    /\ Len(clientIdOf) < MaxConns
    /\ LET socket == Len(clientIdOf) + 1
           id     == AllocateId(nextClientId, clients)
       IN /\ nextClientId' = nextClientId + 1
          /\ clientIdOf' = Append(clientIdOf, id)
          /\ clients' = Register(clients, id, socket)
          /\ readyState' = Append(readyState, "OPEN")
          /\ closeFired' = Append(closeFired, FALSE)
          /\ errorFired' = Append(errorFired, FALSE)
          /\ sent' = Append(sent, <<>>)
          /\ lastPayload' = Append(lastPayload, NoMessage)
    /\ UNCHANGED <<lastBroadcast, lastWrites, errorLogged, clientVars, gameVars>>

\* wss.on('connection'): allocate the id, register the session, send the id message,
\* install the handlers.
Connection ==
    /\ Len(clientIdOf) < MaxConns
    /\ LET socket == Len(clientIdOf) + 1
           id     == AllocateId(nextClientId, clients)
       IN /\ nextClientId' = nextClientId + 1
          /\ clientIdOf' = Append(clientIdOf, id)
          /\ clients' = Register(clients, id, socket)
          /\ readyState' = Append(readyState, "OPEN")
          /\ closeFired' = Append(closeFired, FALSE)
          /\ errorFired' = Append(errorFired, FALSE)
          /\ sent' = Append(sent, <<IdMessage(id)>>)
          /\ lastPayload' = Append(lastPayload, NoMessage)
    /\ UNCHANGED <<lastBroadcast, lastWrites, errorLogged, clientVars, gameVars>>

\* Variant: the handler resets the animation of an object payload before storing it.
MessageHandlerSanitising(cl, id, message) ==
    IF message.kind = "garbage" THEN cl
    ELSE LET data == message.data IN
         IF data.t # "obj" THEN cl
         ELSE IF "type" \in DOMAIN data /\ data.type = "position"
              THEN IF id \in DOMAIN cl
                   THEN LET p == Get(data, "position") IN
                        [cl EXCEPT ![id].position =
                            IF p.t = "obj" THEN [p EXCEPT !.animation = "idle"] ELSE p]
                   ELSE cl
              ELSE cl

\* Variant: the handler evicts the session when the message cannot be parsed.
MessageHandlerEvicting(cl, id, message) ==
    IF message.kind = "garbage" THEN [k \in DOMAIN cl \ {id} |-> cl[k]]
    ELSE LET data == message.data IN
         IF data.t # "obj" THEN cl
         ELSE IF "type" \in DOMAIN data /\ data.type = "position"
              THEN IF id \in DOMAIN cl
                   THEN [cl EXCEPT ![id].position = Get(data, "position")]
                   ELSE cl
              ELSE cl

\* Variant: the handler stores the payload in every session.
MessageHandlerShared(cl, id, message) ==
    IF message.kind = "garbage" THEN cl
    ELSE LET data == message.data IN
         IF data.t # "obj" THEN cl
         ELSE IF "type" \in DOMAIN data /\ data.type = "position"
              THEN IF id \in DOMAIN cl
                   THEN [k \in DOMAIN cl |-> [cl[k] EXCEPT !.position = Get(data, "position")]]
                   ELSE cl
              ELSE cl

\* Variant: the handler registers the session again when it is gone.
MessageHandlerRecreating(cl, id, message) ==
    IF message.kind = "garbage" THEN cl
    ELSE LET data == message.data IN
         IF data.t # "obj" THEN cl
         ELSE IF "type" \in DOMAIN data /\ data.type = "position"
              THEN [k \in DOMAIN cl \cup {id} |->
                      IF k = id THEN [ws |-> id, position |-> Get(data, "position")]
                      ELSE cl[k]]
              ELSE cl

\* socket.on('message'): the registry after the handler ran. JSON.parse throws on
\* text that is no JSON, data.type throws on null, and clients.get(clientId).position
\* throws when the session is gone; the catch swallows each.
MessageHandler(cl, id, message) ==
    IF message.kind = "garbage" THEN cl
    ELSE LET data == message.data IN
         IF data.t # "obj" THEN cl
         ELSE IF "type" \in DOMAIN data /\ data.type = "position"
              THEN IF id \in DOMAIN cl
                   THEN [cl EXCEPT ![id].position = Get(data, "position")]
                   ELSE cl
              ELSE cl

\* The handler's try block throws, so its catch runs console.error.
MessageHandlerThrows(cl, id, message) ==
    \/ message.kind = "garbage"
    \/ message.data.t # "obj"
    \/ /\ "type" \in DOMAIN message.data
       /\ message.data.type = "position"
       /\ id \notin DOMAIN cl

IsPositionMessage(message) ==
    /\ message.kind = "json"
    /\ message.data.t = "obj"
    /\ "type" \in DOMAIN message.data
    /\ message.data.type = "position"

OnMessage(c, message) ==
    /\ clients' = MessageHandler(clients, clientIdOf[c], message)
    /\ lastPayload' =
          IF IsPositionMessage(message) /\ clientIdOf[c] \in DOMAIN clients
          THEN [lastPayload EXCEPT ![c] = Get(message.data, "position")]
          ELSE lastPayload
    /\ errorLogged' = (errorLogged \/ MessageHandlerThrows(clients, clientIdOf[c], message))
    /\ UNCHANGED <<nextClientId, clientIdOf, readyState, closeFired, errorFired, sent,
                   lastBroadcast, lastWrites, clientVars, gameVars>>

\* clients.delete(clientId)
Delete(cl, id) == [k \in DOMAIN cl \ {id} |-> cl[k]]

\* Variant: the close handler empties the registry.
CloseHandlerClear(cl, id) == <<>>

\* socket.on('close')
CloseHandler(cl, id) == Delete(cl, id)

\* socket.on('error'): if (clients.has(clientId)) clients.delete(clientId)
ErrorHandler(cl, id) == IF id \in DOMAIN cl THEN Delete(cl, id) ELSE cl

\* The peer starts the closing handshake: the socket is no longer OPEN, its 'close'
\* event has not been emitted yet.
StartClosing(c) ==
    /\ readyState[c] = "OPEN"
    /\ readyState' = [readyState EXCEPT ![c] = "CLOSING"]
    /\ UNCHANGED <<clients, nextClientId, clientIdOf, closeFired, errorFired, sent,
                   lastBroadcast, lastWrites, lastPayload, errorLogged, clientVars, gameVars>>

\* ws emits 'close' once per socket, with readyState CLOSED.
EmitClose(c) ==
    /\ ~closeFired[c]
    /\ closeFired' = [closeFired EXCEPT ![c] = TRUE]
    /\ readyState' = [readyState EXCEPT ![c] = "CLOSED"]
    /\ clients' = CloseHandler(clients, clientIdOf[c])
    /\ lastPayload' = [lastPayload EXCEPT ![c] = NoMessage]
    /\ UNCHANGED <<nextClientId, clientIdOf, errorFired, sent, lastBroadcast,
                   lastWrites, errorLogged, clientVars, gameVars>>

\* ws emits 'error'; an OPEN socket is CLOSING when the handler runs.
EmitError(c) ==
    /\ ~errorFired[c]
    /\ errorFired' = [errorFired EXCEPT ![c] = TRUE]
    /\ readyState' = [readyState EXCEPT ![c] = IF @ = "OPEN" THEN "CLOSING" ELSE @]
    /\ clients' = ErrorHandler(clients, clientIdOf[c])
    /\ lastPayload' = [lastPayload EXCEPT ![c] = NoMessage]
    /\ UNCHANGED <<nextClientId, clientIdOf, closeFired, sent, lastBroadcast,
                   lastWrites, errorLogged, clientVars, gameVars>>

\* clients.forEach((client, id) => { positions[id] = client.position })
CollectPositions(cl) == [k \in {Key(id) : id \in DOMAIN cl} |->
                            cl[CHOOSE id \in DOMAIN cl : Key(id) = k].position]

\* JSON.stringify({ type: 'positions', positions: positions })
PositionsMessage(cl) == [type |-> "positions", positions |-> Stringify(CollectPositions(cl))]

\* Variant: the callback broadcasts whatever the size of the registry.
ShouldBroadcastAlways(cl) == TRUE

\* if (clients.size > 0)
ShouldBroadcast(cl) == Cardinality(DOMAIN cl) > 0

\* if (client.ws.readyState === WebSocket.OPEN)
Writable(state) == state = "OPEN"

\* client.ws.send(message), as the log of a socket records it.
BroadcastWrite == [type |-> "positions"]

\* The log of a socket after one more broadcast write.
LogBroadcast(log) ==
    IF Len(log) > 0 /\ log[Len(log)] = BroadcastWrite THEN log ELSE Append(log, BroadcastWrite)

\* clients.forEach visits the entries in insertion order, which is the order of the
\* integer keys: the sockets of the sessions in cl with key above lo that pass the
\* readyState test, in that order.
RECURSIVE WritesFrom(_, _, _)
WritesFrom(cl, states, lo) ==
    LET rest == {id \in DOMAIN cl : id > lo} IN
    IF rest = {} THEN <<>>
    ELSE LET id == CHOOSE i \in rest : \A j \in rest : i <= j IN
         (IF Writable(states[cl[id].ws]) THEN <<cl[id].ws>> ELSE <<>>)
            \o WritesFrom(cl, states, id)

\* How often socket c occurs in the sequence of writes w.
Count(w, c) == Cardinality({i \in 1..Len(w) : w[i] = c})

\* Variant: the loop ends at the first socket that is not writable.
RECURSIVE WritesUntilFrom(_, _, _)
WritesUntilFrom(cl, states, lo) ==
    LET rest == {id \in DOMAIN cl : id > lo} IN
    IF rest = {} THEN <<>>
    ELSE LET id == CHOOSE i \in rest : \A j \in rest : i <= j IN
         IF Writable(states[cl[id].ws])
         THEN <<cl[id].ws>> \o WritesUntilFrom(cl, states, id)
         ELSE <<>>

BroadcastWritesUntilBad(cl, states) == WritesUntilFrom(cl, states, 0)

\* The writes of one run of the second forEach.
BroadcastWrites(cl, states) == WritesFrom(cl, states, 0)

\* The setInterval callback.
BroadcastTick ==
    /\ IF ShouldBroadcast(clients)
       THEN LET message == PositionsMessage(clients)
                writes  == BroadcastWrites(clients, readyState)
            IN /\ lastBroadcast' = message
               /\ lastWrites' = writes
               /\ sent' = [c \in Conns |->
                             IF Count(writes, c) > 0 THEN LogBroadcast(sent[c]) ELSE sent[c]]
       ELSE /\ lastBroadcast' = NoMessage
            /\ lastWrites' = <<>>
            /\ sent' = sent
    /\ UNCHANGED <<clients, nextClientId, clientIdOf, readyState, closeFired, errorFired,
                   lastPayload, errorLogged, clientVars, gameVars>>

ClientInitIdle ==
    /\ socketState = "NONE"
    /\ clientId = JNull
    /\ isConnected = FALSE
    /\ otherPlayers = <<>>
    /\ otherPlayerMeshes = <<>>
    /\ sceneMeshes = {}
    /\ hasCharacter = TRUE
    /\ timers = <<>>
    /\ lastWrite = NoMessage
    /\ idReceived = FALSE
    /\ uncaught = FALSE
    /\ frameRendered = TRUE
    /\ lastCleanup = -1
    /\ sinceClose = -1
    /\ attemptsSinceClose = 0
    /\ attemptPhase = 0
    /\ discarded = FALSE
    /\ tornDown = FALSE
    /\ attemptWhileLive = FALSE

\* No key is down and nothing has moved.
Standing == [moving |-> FALSE, running |-> FALSE, jumping |-> FALSE, falling |-> FALSE,
             doubleJumping |-> FALSE, wallRunning |-> FALSE, sliding |-> FALSE,
             dashing |-> FALSE]

\* character.js and player.js after the scripts have run: no model is loaded and the
\* body has had no collision.
GameInit ==
    /\ characterAnimations = <<>>
    /\ hasSetLoop = TRUE
    /\ currentAnimation = "idle"
    /\ isCharacterInitialized = FALSE
    /\ targetAnimation = "none"
    /\ movementState = Standing
    /\ canJump = FALSE
    /\ hasDoubleJump = FALSE
    /\ bodyAnimation = Undefined
    /\ onSurface = FALSE
    /\ firstJumpFrom = "none"

ServerInit ==
    /\ clients = <<>>
    /\ nextClientId = 1
    /\ clientIdOf = <<>>
    /\ readyState = <<>>
    /\ closeFired = <<>>
    /\ errorFired = <<>>
    /\ sent = <<>>
    /\ lastBroadcast = NoMessage
    /\ lastWrites = <<>>
    /\ lastPayload = <<>>
    /\ errorLogged = FALSE

Init == ServerInit /\ ClientInitIdle /\ GameInit

Next ==
    \/ Connection
    \/ \E c \in Conns : \E message \in InboundMessages : OnMessage(c, message)
    \/ \E c \in Conns : StartClosing(c)
    \/ \E c \in Conns : EmitClose(c)
    \/ \E c \in Conns : EmitError(c)
    \/ BroadcastTick

Spec == Init /\ [][Next]_vars

----------------------------------------------------------------------------
(* network.js *)

\* What JSON.parse gives the client for the server's message m.
Received(m) == [kind |-> "json", data |-> [t |-> "obj"] @@ m]

\* The values a session's position can hold: the handler stores the payload of a
\* position message whatever it is (server.js:66).
StoredPositions == {InitialPosition, WalkState, JNull, Undefined}

\* The registries a broadcast can be built from.
Registries ==
    UNION {[ids -> [ws : {1}, position : StoredPositions]] :
             ids \in SUBSET (1..MaxConns) \ {{}}}

\* The positions messages the server can send.
Snapshots == {PositionsMessage(cl) : cl \in Registries}

\* Messages handleServerMessage has no use for: text that is no JSON, JSON null, an
\* object of an unknown type, and a positions message whose payload is missing, null
\* or a number.
UnusableMessages ==
    {[kind |-> "garbage"],
     [kind |-> "json", data |-> JNull],
     [kind |-> "json", data |-> [t |-> "obj", type |-> "chat"]],
     [kind |-> "json", data |-> [t |-> "obj", type |-> "positions"]],
     [kind |-> "json", data |-> [t |-> "obj", type |-> "positions", positions |-> JNull]],
     [kind |-> "json", data |-> [t |-> "obj", type |-> "positions",
                                 positions |-> [t |-> "number", v |-> 5]]]}

\* What can arrive on the client's socket: the server's messages and the messages
\* the client has no use for.
ServerMessages ==
    {Received(m) : m \in Snapshots}
    \cup {Received(IdMessage(id)) : id \in 1..MaxConns}
    \cup UnusableMessages

\* if (value): null, undefined, 0 and '' are falsy.
Truthy(value) ==
    IF "t" \in DOMAIN value
    THEN \/ value.t = "obj"
         \/ value.t = "number" /\ value.v # 0
         \/ value.t = "string" /\ value.v # ""
    ELSE TRUE

\* typeof value === 'object'
TypeofObject(value) == "t" \in DOMAIN value => value.t \in {"obj", "null"}

\* id !== clientId: a key of the positions object is a string, and the comparison is
\* strict, so the key differs from a clientId that is null or a number.
StrictlyEqualsKey(cid, key) == cid.t = "string" /\ cid.v = key

\* position.rotation || 0
RotationOr(position) ==
    IF "rotation" \in DOMAIN position /\ position.rotation # 0 THEN position.rotation ELSE 0

\* position.animation || 'idle'
AnimationOr(position) ==
    IF "animation" \in DOMAIN position /\ position.animation # ""
    THEN position.animation ELSE "idle"

\* The value otherPlayers.set stores for one entry of the positions object.
StoredEntry(position) ==
    [x |-> position.x, y |-> position.y, z |-> position.z,
     rotation |-> RotationOr(position), animation |-> AnimationOr(position)]

\* Object.entries lists integer-like keys in ascending order; for the ids of this
\* model that is the order of the numbers the keys spell.
KeyNumber == [k \in {Key(a) : a \in 1..(MaxConns + 1)} |->
                CHOOSE a \in 1..(MaxConns + 1) : Key(a) = k]

KeyBefore(j, k) == KeyNumber[j] < KeyNumber[k]

\* The first loop of updateOtherPlayers reads position.x of every entry it does not
\* skip: a null entry throws there. The keys the loop stores before it ends or throws.
KeysStored(positions, cid) ==
    {k \in DOMAIN positions :
        /\ ~StrictlyEqualsKey(cid, k)
        /\ \A j \in DOMAIN positions :
              (j = k \/ KeyBefore(j, k)) => (StrictlyEqualsKey(cid, j) \/ positions[j] # JNull)}

StoreLoopThrows(positions, cid) ==
    \E k \in DOMAIN positions : ~StrictlyEqualsKey(cid, k) /\ positions[k] = JNull

\* otherPlayers after the first loop of updateOtherPlayers.
StorePositions(players, positions, cid) ==
    [k \in DOMAIN players \cup KeysStored(positions, cid) |->
        IF k \in KeysStored(positions, cid) THEN StoredEntry(positions[k]) ELSE players[k]]

\* A mesh that is in neither the scene nor the cache: new THREE.Mesh(...).
NewMesh(meshes, scene) ==
    CHOOSE n \in 1..(Cardinality(scene) + Cardinality(DOMAIN meshes) + 1) :
        n \notin scene /\ \A k \in DOMAIN meshes : meshes[k].mesh # n

\* The first forEach of updateOtherPlayerMeshes throws at the first player that has
\* no mesh when window.character is defined: window.character has no
\* createOtherCharacterMesh (character.js exports none).
MeshLoopThrows(players, meshes, character) ==
    character /\ \E k \in DOMAIN players : k \notin DOMAIN meshes

\* Variant: a mesh is made for every player on every pass.
NeedsMeshAlways(meshes, id) == TRUE

\* if (!otherPlayerMeshes.has(id))
NeedsMesh(meshes, id) == id \notin DOMAIN meshes

\* if (position.animation && position.animation !== playerData.lastAnimation)
NextAnimation(position, last) ==
    IF position.animation # "" /\ position.animation # last THEN position.animation ELSE last

\* One pass of the first forEach over the players at or after key lo (in key order),
\* window.player.createOtherPlayerMesh supplying the missing meshes: the cache and
\* the scene after it.
RECURSIVE MeshLoop(_, _, _, _)
MeshLoop(players, meshes, scene, done) ==
    LET rest == DOMAIN players \ done IN
    IF rest = {} THEN [meshes |-> meshes, scene |-> scene]
    ELSE LET k == CHOOSE j \in rest : \A i \in rest : i = j \/ KeyBefore(j, i)
             fresh == NeedsMesh(meshes, k)
             mesh == IF fresh THEN NewMesh(meshes, scene) ELSE meshes[k].mesh
             last == IF fresh THEN "idle" ELSE meshes[k].lastAnimation
             entry == [mesh |-> mesh,
                       at |-> <<players[k].x, players[k].y, players[k].z>>,
                       lastAnimation |-> NextAnimation(players[k], last)]
         IN MeshLoop(players,
                     [j \in DOMAIN meshes \cup {k} |-> IF j = k THEN entry ELSE meshes[j]],
                     IF fresh THEN scene \cup {mesh} ELSE scene,
                     done \cup {k})

\* The second forEach: a cache entry whose key is no key of otherPlayers leaves the
\* cache and its mesh leaves the scene.
RemoveLoop(players, meshes, scene) ==
    [meshes |-> [k \in DOMAIN meshes \cap DOMAIN players |-> meshes[k]],
     scene  |-> scene \ {meshes[k].mesh : k \in DOMAIN meshes \ DOMAIN players}]

\* updateOtherPlayerMeshes(): the cache and the scene after the call, which a throw
\* in the first forEach ends before anything is stored.
UpdateOtherPlayerMeshes(players, meshes, scene, character) ==
    IF MeshLoopThrows(players, meshes, character)
    THEN [meshes |-> meshes, scene |-> scene]
    ELSE LET looped == MeshLoop(players, meshes, scene, {})
         IN RemoveLoop(players, looped.meshes, looped.scene)

\* updateOtherPlayers(positions) on a cache: positions that are falsy or no object
\* return at once; else the store loop, then updateOtherPlayerMeshes unless the loop
\* threw; the catch swallows a throw of either.
AfterUpdateOtherPlayers(players, meshes, scene, positions, cid, character) ==
    IF ~Truthy(positions) \/ ~TypeofObject(positions)
    THEN [players |-> players, meshes |-> meshes, scene |-> scene]
    ELSE LET stored == StorePositions(players, positions, cid)
             after  == IF StoreLoopThrows(positions, cid)
                       THEN [meshes |-> meshes, scene |-> scene]
                       ELSE UpdateOtherPlayerMeshes(stored, meshes, scene, character)
         IN [players |-> stored, meshes |-> after.meshes, scene |-> after.scene]

\* What one updateOtherPlayers(positions) does to the scene and logs: the meshes it
\* creates, the meshes it removes from the scene and the animation changes it logs.
ReconcileEvents(players, meshes, scene, positions, cid, character) ==
    LET stored == StorePositions(players, positions, cid)
        runs   == /\ Truthy(positions) /\ TypeofObject(positions)
                  /\ ~StoreLoopThrows(positions, cid)
                  /\ ~MeshLoopThrows(stored, meshes, character)
        looped == MeshLoop(stored, meshes, scene, {})
        last(k) == IF k \in DOMAIN meshes THEN meshes[k].lastAnimation ELSE "idle"
    IN IF ~runs THEN [created |-> 0, removed |-> 0, animation |-> 0]
       ELSE [created   |-> Cardinality(looped.scene \ scene),
             removed   |-> Cardinality(DOMAIN looped.meshes \ DOMAIN stored),
             animation |-> Cardinality({k \in DOMAIN stored :
                                           looped.meshes[k].lastAnimation # last(k)})]

\* updateOtherPlayers(positions)
UpdateOtherPlayers(positions) ==
    \E after \in {AfterUpdateOtherPlayers(otherPlayers, otherPlayerMeshes, sceneMeshes,
                                          positions, clientId, hasCharacter)} :
        /\ otherPlayers' = after.players
        /\ otherPlayerMeshes' = after.meshes
        /\ sceneMeshes' = after.scene

\* case '<type>': of switch (data.type)
TypeIs(data, type) == "type" \in DOMAIN data /\ data.type = type

\* Variant: a message of an unknown type is taken for the id message.
HandleServerMessageDefaultId(message) ==
    IF message.kind = "garbage" \/ message.data.t # "obj"
    THEN UNCHANGED <<clientId, otherPlayers, otherPlayerMeshes, sceneMeshes>>
    ELSE IF TypeIs(message.data, "positions")
    THEN IF Truthy(Get(message.data, "positions"))
         THEN /\ UpdateOtherPlayers(message.data.positions)
              /\ UNCHANGED clientId
         ELSE UNCHANGED <<clientId, otherPlayers, otherPlayerMeshes, sceneMeshes>>
    ELSE /\ clientId' = IF "id" \in DOMAIN message.data
                        THEN [t |-> "number", v |-> message.data.id] ELSE Undefined
         /\ UNCHANGED <<otherPlayers, otherPlayerMeshes, sceneMeshes>>

\* handleServerMessage(message): JSON.parse of text that is no JSON throws, and so
\* does data.type of null; the catch logs the error and the function returns.
HandleServerMessage(message) ==
    IF message.kind = "garbage" \/ message.data.t # "obj"
    THEN UNCHANGED <<clientId, otherPlayers, otherPlayerMeshes, sceneMeshes>>
    ELSE IF TypeIs(message.data, "id")
    THEN /\ clientId' = [t |-> "number", v |-> message.data.id]
         /\ UNCHANGED <<otherPlayers, otherPlayerMeshes, sceneMeshes>>
    ELSE IF TypeIs(message.data, "positions")
    THEN IF Truthy(Get(message.data, "positions"))
         THEN /\ UpdateOtherPlayers(message.data.positions)
              /\ UNCHANGED clientId
         ELSE UNCHANGED <<clientId, otherPlayers, otherPlayerMeshes, sceneMeshes>>
    ELSE UNCHANGED <<clientId, otherPlayers, otherPlayerMeshes, sceneMeshes>>

\* socket.readyState: it is CLOSED from the moment the connection fails, before the
\* close event is dispatched.
ReadyState(state) == IF state = "FAILED" THEN "CLOSED" ELSE state

\* Variant: no reconnect callback is set.
ScheduleNothing(pending) == pending

\* Variant: the reconnect callback is set without a delay.
ScheduleReconnectNow(pending) == Append(pending, 0)

\* Variant: the reconnect callback is set twice.
ScheduleReconnectTwice(pending) == Append(Append(pending, ReconnectDelay), ReconnectDelay)

\* setTimeout(connectToServer, RECONNECT_DELAY)
ScheduleReconnect(pending) == Append(pending, ReconnectDelay)

RemoveAt(seq, i) == SubSeq(seq, 1, i - 1) \o SubSeq(seq, i + 1, Len(seq))

\* connectToServer(): socket = new WebSocket(SERVER_URL) and the handlers; when the
\* constructor throws, the catch schedules the next attempt and socket stays what it
\* was. pending are the callbacks still set when the call begins.
ConnectToServer(pending) ==
    /\ \/ /\ socketState' = "CONNECTING"
          /\ timers' = pending
          /\ lastWrite' = NoMessage
          /\ idReceived' = FALSE
       \/ /\ socketState' = socketState
          /\ timers' = ScheduleReconnect(pending)
          /\ UNCHANGED <<lastWrite, idReceived>>
    /\ attemptPhase' = 1 - attemptPhase
    /\ attemptWhileLive' = (attemptWhileLive \/ socketState \in {"CONNECTING", "OPEN"})
    /\ attemptsSinceClose' =
          IF sinceClose \in 0..ReconnectDelay /\ attemptsSinceClose < 2
          THEN attemptsSinceClose + 1 ELSE attemptsSinceClose

\* initNetwork(), which main.js calls once.
InitNetwork ==
    /\ socketState = "NONE"
    /\ timers = <<>>
    /\ ConnectToServer(<<>>)
    /\ UNCHANGED <<clientId, isConnected, otherPlayers, otherPlayerMeshes, sceneMeshes,
                   hasCharacter, uncaught, frameRendered, lastCleanup, sinceClose, discarded, tornDown,
                   serverVars, gameVars>>

\* A setTimeout(connectToServer, RECONNECT_DELAY) callback runs when its delay is over.
ReconnectTimer ==
    /\ \E i \in 1..Len(timers) :
          /\ timers[i] = 0
          /\ ConnectToServer(RemoveAt(timers, i))
    /\ UNCHANGED <<clientId, isConnected, otherPlayers, otherPlayerMeshes, sceneMeshes,
                   hasCharacter, uncaught, frameRendered, lastCleanup, sinceClose, discarded, tornDown,
                   serverVars, gameVars>>

\* One second passes: no callback that is due is left waiting.
Elapse ==
    /\ \A i \in 1..Len(timers) : timers[i] > 0
    /\ timers # <<>> \/ sinceClose \in 0..ReconnectDelay
    /\ timers' = [i \in 1..Len(timers) |-> timers[i] - 1]
    /\ sinceClose' = IF sinceClose \in 0..ReconnectDelay THEN sinceClose + 1 ELSE sinceClose
    /\ UNCHANGED <<socketState, clientId, isConnected, otherPlayers, otherPlayerMeshes,
                   sceneMeshes, hasCharacter, attemptWhileLive, lastWrite, idReceived, uncaught, frameRendered, lastCleanup,
                   attemptsSinceClose, attemptPhase, discarded, tornDown, serverVars, gameVars>>

\* socket.onopen
SocketOpen ==
    /\ socketState = "CONNECTING"
    /\ socketState' = "OPEN"
    /\ isConnected' = TRUE
    /\ lastCleanup' = -1
    /\ sinceClose' = -1
    /\ attemptsSinceClose' = 0
    /\ attemptPhase' = 0
    /\ discarded' = FALSE
    /\ tornDown' = FALSE
    /\ UNCHANGED <<clientId, otherPlayers, otherPlayerMeshes, sceneMeshes, hasCharacter, attemptWhileLive,
                   timers, lastWrite, idReceived, uncaught, frameRendered, serverVars, gameVars>>

\* handleServerMessage logs the message and drops it: its catch (text that is no
\* JSON, data that is null), the default case, the positions case without positions
\* data, and the guard of updateOtherPlayers.
Discards(message) ==
    \/ message.kind = "garbage"
    \/ message.data.t # "obj"
    \/ ~TypeIs(message.data, "id") /\ ~TypeIs(message.data, "positions")
    \/ /\ TypeIs(message.data, "positions")
       /\ \/ ~Truthy(Get(message.data, "positions"))
          \/ ~TypeofObject(message.data.positions)

IsIdMessage(message) ==
    message.kind = "json" /\ message.data.t = "obj" /\ TypeIs(message.data, "id")

\* socket.onmessage. The server writes the id message once to a connection
\* (server.js:54-57).
SocketMessage(message) ==
    /\ socketState = "OPEN"
    /\ IsIdMessage(message) => ~idReceived
    /\ HandleServerMessage(message)
    /\ idReceived' = (idReceived \/ IsIdMessage(message))
    /\ discarded' = Discards(message)
    /\ UNCHANGED <<socketState, isConnected, hasCharacter, attemptWhileLive, timers, lastWrite, uncaught, frameRendered,
                   lastCleanup, sinceClose, attemptsSinceClose, attemptPhase, tornDown,
                   serverVars, gameVars>>

\* The position a caller hands to sendPlayerPosition: all of its fields, or x, y and z
\* alone.
LocalStates == {WalkState, [t |-> "obj", x |-> 0, y |-> 0, z |-> 0]}

\* Variant: the test of the socket's readyState is left out.
CanSendByFlag == isConnected /\ socketState # "NONE"

\* if (isConnected && socket && socket.readyState === WebSocket.OPEN)
CanSend == isConnected /\ socketState # "NONE" /\ ReadyState(socketState) = "OPEN"

\* The message sendPlayerPosition builds from position.
PositionMessage(position) ==
    [type |-> "position", position |-> [t |-> "obj"] @@ StoredEntry(position)]

\* sendPlayerPosition(position)
SendPlayerPosition(position) ==
    /\ lastWrite' = IF CanSend THEN PositionMessage(position) ELSE lastWrite
    /\ UNCHANGED <<socketState, clientId, isConnected, otherPlayers, otherPlayerMeshes,
                   sceneMeshes, hasCharacter, attemptWhileLive, timers, idReceived, uncaught, frameRendered, lastCleanup,
                   sinceClose, attemptsSinceClose, attemptPhase, discarded, tornDown,
                   serverVars, gameVars>>

\* Variant: the cache of meshes is cleared and the positions are kept.
CleanupOtherPlayersMeshesOnly ==
    /\ sceneMeshes' = sceneMeshes \ {otherPlayerMeshes[k].mesh : k \in DOMAIN otherPlayerMeshes}
    /\ otherPlayerMeshes' = <<>>
    /\ otherPlayers' = otherPlayers
    /\ lastCleanup' = Cardinality(DOMAIN otherPlayerMeshes)

\* cleanupOtherPlayers()
CleanupOtherPlayers ==
    /\ sceneMeshes' = sceneMeshes \ {otherPlayerMeshes[k].mesh : k \in DOMAIN otherPlayerMeshes}
    /\ otherPlayerMeshes' = <<>>
    /\ otherPlayers' = <<>>
    /\ lastCleanup' = Cardinality(DOMAIN otherPlayerMeshes)

\* The server's close frame arrives: the socket is closing until the close event.
SocketClosing ==
    /\ socketState = "OPEN"
    /\ socketState' = "CLOSING"
    /\ UNCHANGED <<clientId, isConnected, otherPlayers, otherPlayerMeshes, sceneMeshes,
                   hasCharacter, attemptWhileLive, timers, lastWrite, idReceived, uncaught, frameRendered, lastCleanup,
                   sinceClose, attemptsSinceClose, attemptPhase, discarded, tornDown,
                   serverVars, gameVars>>

\* socket.onclose, of a socket that has not closed yet. The handler is the same
\* whether the connection was lost or the page closed the socket (byPage).
SocketClose(byPage) ==
    /\ socketState \in {"CONNECTING", "OPEN", "CLOSING", "FAILED"}
    /\ tornDown' = byPage
    /\ socketState' = "CLOSED"
    /\ isConnected' = FALSE
    /\ CleanupOtherPlayers
    /\ timers' = ScheduleReconnect(timers)
    /\ sinceClose' = 0
    /\ attemptsSinceClose' = 0
    /\ UNCHANGED <<clientId, hasCharacter, attemptWhileLive, lastWrite, idReceived, uncaught, frameRendered, attemptPhase,
                   discarded, serverVars, gameVars>>

\* socket.onerror: console.error and nothing else. The browser fires the event when
\* the connection has failed, and the close event after it.
SocketError ==
    /\ socketState \in {"CONNECTING", "OPEN", "CLOSING"}
    /\ socketState' = "FAILED"
    /\ UNCHANGED <<clientId, isConnected, otherPlayers, otherPlayerMeshes, sceneMeshes,
                   hasCharacter, attemptWhileLive, timers, lastWrite, idReceived, uncaught, frameRendered, lastCleanup,
                   sinceClose, attemptsSinceClose, attemptPhase, discarded, tornDown,
                   serverVars, gameVars>>

\* The close event of a failed connection.
CloseAfterError == socketState = "FAILED" /\ SocketClose(FALSE)

\* updateNetwork(): updateOtherPlayerMeshes(), whose throw leaves the function.
UpdateNetwork ==
    /\ \E after \in {UpdateOtherPlayerMeshes(otherPlayers, otherPlayerMeshes, sceneMeshes,
                                              hasCharacter)} :
          /\ otherPlayerMeshes' = after.meshes
          /\ sceneMeshes' = after.scene
    /\ uncaught' = (uncaught \/ MeshLoopThrows(otherPlayers, otherPlayerMeshes, hasCharacter))

\* animate(), one frame: requestAnimationFrame(animate) comes first, so the next frame
\* is requested whatever follows. The updates and renderer.render(scene, camera) are
\* the body of one try: a throw of window.network.updateNetwork() goes to its catch,
\* which logs it, and the statements after the call, the render among them, are not
\* run in that frame.
Animate ==
    /\ UpdateNetwork
    /\ frameRendered' = ~MeshLoopThrows(otherPlayers, otherPlayerMeshes, hasCharacter)
    /\ UNCHANGED <<socketState, clientId, isConnected, otherPlayers, hasCharacter, attemptWhileLive, timers,
                   lastWrite, idReceived, lastCleanup, sinceClose, attemptsSinceClose,
                   attemptPhase, discarded, tornDown, serverVars, gameVars>>

ClientInit ==
    /\ ServerInit
    /\ GameInit
    /\ socketState = "NONE"
    /\ clientId = JNull
    /\ isConnected = FALSE
    /\ otherPlayers = <<>>
    /\ otherPlayerMeshes = <<>>
    /\ sceneMeshes = {}
    /\ hasCharacter \in BOOLEAN
    /\ timers = <<>>
    /\ lastWrite = NoMessage
    /\ idReceived = FALSE
    /\ uncaught = FALSE
    /\ frameRendered = TRUE
    /\ lastCleanup = -1
    /\ sinceClose = -1
    /\ attemptsSinceClose = 0
    /\ attemptPhase = 0
    /\ discarded = FALSE
    /\ tornDown = FALSE
    /\ attemptWhileLive = FALSE

ClientNext ==
    \/ InitNetwork
    \/ ReconnectTimer
    \/ Elapse
    \/ SocketOpen
    \/ \E message \in ServerMessages : SocketMessage(message)
    \/ \E position \in LocalStates : SendPlayerPosition(position)
    \/ SocketClosing
    \/ \E byPage \in BOOLEAN : SocketClose(byPage)
    \/ SocketError
    \/ Animate

ClientSpec == ClientInit /\ [][ClientNext]_vars

\* One connection of the client: the socket is made and opens, messages arrive on it
\* and frames call updateNetwork.
ConnectionNext ==
    \/ InitNetwork
    \/ SocketOpen
    \/ \E message \in ServerMessages : SocketMessage(message)
    \/ Animate

ConnectionSpec == ClientInit /\ [][ConnectionNext]_vars

\* The page's scheduling: main.js calls initNetwork, time passes, a callback that is
\* due runs, and the close event follows the error event.
ClientFairness ==
    /\ WF_vars(InitNetwork)
    /\ WF_vars(Elapse)
    /\ WF_vars(ReconnectTimer)
    /\ WF_vars(CloseAfterError)

ClientLiveSpec == ClientInit /\ [][ClientNext]_vars /\ ClientFairness

----------------------------------------------------------------------------
(* character.js *)

MovementStates ==
    [moving : BOOLEAN, running : BOOLEAN, jumping : BOOLEAN, falling : BOOLEAN,
     doubleJumping : BOOLEAN, wallRunning : BOOLEAN, sliding : BOOLEAN, dashing : BOOLEAN]

\* The clip names a model file can carry.
FileClipNames == {"idle", "Walk", "run", "jump", "slide", "wallRun", "dance"}

\* animation.name.toLowerCase()
ToLowerCase(name) ==
    CASE name = "Walk" -> "walk"
      [] name = "wallRun" -> "wallrun"
      [] OTHER -> name

\* The animations of a model file: up to MaxClips clips of different names.
ModelFiles ==
    UNION {{clips \in [1..n -> FileClipNames] :
               \A i, j \in 1..n : i # j => clips[i] # clips[j]} : n \in 0..MaxClips}

\* The animations of the model the stub loader makes (GLTFLoader.js:375-381).
StubModel == <<"idle", "walk", "run", "jump", "fall">>

\* The keys of the placeholder's characterAnimations.
PlaceholderAnimations ==
    <<"idle", "walk", "run", "jump", "fall", "dash", "slide", "wallRun">>

\* characterAnimations[name], as a truth value
HasAnimation(animations, name) == \E i \in 1..Len(animations) : animations[i] = name

\* The onLoad callback of loader.load: every clip is stored under its lower-case name,
\* idle is played if there is one and the first clip otherwise.
ModelLoaded(clips) ==
    /\ ~isCharacterInitialized
    /\ characterAnimations' = [i \in 1..Len(clips) |-> ToLowerCase(clips[i])]
    /\ hasSetLoop' = TRUE
    /\ currentAnimation' =
          IF HasAnimation(characterAnimations', "idle") THEN "idle"
          ELSE IF Len(clips) > 0 THEN characterAnimations'[1]
          ELSE currentAnimation
    /\ isCharacterInitialized' = TRUE
    /\ UNCHANGED <<targetAnimation, movementState, canJump, hasDoubleJump, bodyAnimation,
                   onSurface, firstJumpFrom, serverVars, clientVars>>

\* createPlaceholderCharacter(), which runs when there is no loader and when the load
\* fails.
CreatePlaceholderCharacter ==
    /\ ~isCharacterInitialized
    /\ characterAnimations' = PlaceholderAnimations
    /\ hasSetLoop' = FALSE
    /\ isCharacterInitialized' = TRUE
    /\ UNCHANGED <<currentAnimation, targetAnimation, movementState, canJump, hasDoubleJump,
                   bodyAnimation, onSurface, firstJumpFrom, serverVars, clientVars>>

\* Variant: jump and fall are tested before the abilities.
TargetAnimationJumpFirst(state) ==
    IF state.doubleJumping THEN "doubleJump"
    ELSE IF state.jumping THEN "jump"
    ELSE IF state.falling THEN "fall"
    ELSE IF state.dashing THEN "dash"
    ELSE IF state.sliding THEN "slide"
    ELSE IF state.wallRunning THEN "wallRun"
    ELSE IF state.moving THEN (IF state.running THEN "run" ELSE "walk")
    ELSE "idle"

\* Variant: running is tested on its own, before moving.
TargetAnimationByFlag(state) ==
    IF state.dashing THEN "dash"
    ELSE IF state.sliding THEN "slide"
    ELSE IF state.wallRunning THEN "wallRun"
    ELSE IF state.doubleJumping THEN "doubleJump"
    ELSE IF state.jumping THEN "jump"
    ELSE IF state.falling THEN "fall"
    ELSE IF state.running THEN "run"
    ELSE IF state.moving THEN "walk"
    ELSE "idle"

\* The target updateCharacterAnimation determines from the flags.
TargetAnimation(state) ==
    IF state.dashing THEN "dash"
    ELSE IF state.sliding THEN "slide"
    ELSE IF state.wallRunning THEN "wallRun"
    ELSE IF state.doubleJumping THEN "doubleJump"
    ELSE IF state.jumping THEN "jump"
    ELSE IF state.falling THEN "fall"
    ELSE IF state.moving THEN (IF state.running THEN "run" ELSE "walk")
    ELSE "idle"

\* const fallbacks
Fallbacks == [dash |-> "run", slide |-> "run", wallRun |-> "jump", doubleJump |-> "jump",
              jump |-> "idle", fall |-> "idle", run |-> "walk", walk |-> "idle"]

\* The target after the fallback step: the target itself if it has an animation, its
\* fallback if that has one, and the first key of characterAnimations otherwise.
\* animations is not empty.
WithFallback(animations, target) ==
    IF HasAnimation(animations, target) THEN target
    ELSE IF target \in DOMAIN Fallbacks /\ HasAnimation(animations, Fallbacks[target])
         THEN Fallbacks[target]
    ELSE animations[1]

\* The crossfade calls target.setLoop for slide without a test of its presence; for
\* another target the call is behind the test of target.getLoop.
CrossFadeThrows(target, setLoop) == target = "slide" /\ ~setLoop

\* currentAnimation after the crossfade block: the target, when it differs from
\* currentAnimation, both have an animation and the block does not end in the catch.
AfterCrossFade(animations, setLoop, current, target) ==
    IF /\ target # current
       /\ HasAnimation(animations, target)
       /\ HasAnimation(animations, current)
       /\ ~CrossFadeThrows(target, setLoop)
    THEN target
    ELSE current

\* updateCharacterAnimation(state); it returns currentAnimation.
UpdateCharacterAnimation(state) ==
    IF ~isCharacterInitialized \/ Len(characterAnimations) = 0
    THEN /\ targetAnimation' = "none"
         /\ currentAnimation' = currentAnimation
    ELSE /\ targetAnimation' = TargetAnimation(state)
         /\ currentAnimation' =
               AfterCrossFade(characterAnimations, hasSetLoop, currentAnimation,
                              WithFallback(characterAnimations, TargetAnimation(state)))

\* The names of the flags of movementState.
Flags == DOMAIN Standing

\* The game has changed one flag of its movementState since the last call, and calls
\* the state machine with it.
CharacterAnimationCall(flag) ==
    /\ movementState' = [movementState EXCEPT ![flag] = ~@]
    /\ UpdateCharacterAnimation(movementState')
    /\ UNCHANGED <<characterAnimations, hasSetLoop, isCharacterInitialized, canJump,
                   hasDoubleJump, bodyAnimation, onSurface, firstJumpFrom, serverVars,
                   clientVars>>

AnimationNext ==
    \/ \E clips \in ModelFiles \cup {StubModel} : ModelLoaded(clips)
    \/ CreatePlaceholderCharacter
    \/ \E flag \in Flags : CharacterAnimationCall(flag)

\* window.character is defined: the page has loaded character.js.
AnimationInit == ClientInit /\ hasCharacter

AnimationSpec == AnimationInit /\ [][AnimationNext]_vars

----------------------------------------------------------------------------
(* player.js *)

\* What one frame reads from outside the module. The keys: a direction key, Shift,
\* and one of E with the dash cooldown over ("dash"), C with the slide cooldown over
\* and the body fast enough to slide ("slide"), Space with the jump cooldown over
\* ("space"), or none of them. The clock: the dash, the slide or the wall run under way
\* has lasted its time ("dash", "slide", "wallRun"), or none has. The body: its
\* vertical velocity is below FALL_THRESHOLD ("down"), above zero ("up") or between
\* them ("level"), and its height is below -10 (fallen).
FrameInputs ==
    [move : BOOLEAN, shift : BOOLEAN, key : {"none", "dash", "slide", "space"},
     over : {"none", "dash", "slide", "wallRun"},
     velocity : {"down", "level", "up"}, fallen : BOOLEAN]

\* The inputs the state of the body allows: a timer that is over belongs to an
\* ability under way, a body that stands on a surface does not move vertically, and
\* a body below the map has fallen there.
PossibleInput(in) ==
    /\ in.over = "dash" => movementState.dashing
    /\ in.over = "slide" => movementState.sliding
    /\ in.over = "wallRun" => movementState.wallRunning
    /\ onSurface => in.velocity = "level"
    /\ in.fallen => (~onSurface /\ in.velocity = "down")

\* handleInput(), the flags before the jump: running from Shift, startDash and
\* updateDash, startSlide and updateSlide, updateWallRun, and moving from the
\* direction keys.
BeforeJump(state, in) ==
    LET running  == in.shift /\ ~state.sliding /\ ~state.dashing
        dashing  == \/ state.dashing /\ in.over # "dash"
                    \/ in.key = "dash" /\ ~state.dashing
        sliding  == \/ state.sliding /\ in.over # "slide"
                    \/ /\ in.key = "slide"
                       /\ ~state.sliding
                       /\ state.moving
                       /\ ~state.jumping
                       /\ ~state.falling
        wallRunning == state.wallRunning /\ in.over # "wallRun"
        moving   == IF in.move /\ ~dashing THEN TRUE
                    ELSE IF ~dashing /\ ~sliding THEN FALSE
                    ELSE state.moving
    IN  [state EXCEPT !.running = running, !.dashing = dashing, !.sliding = sliding,
                      !.wallRunning = wallRunning, !.moving = moving]

\* The jump handleInput() performs: "first" while canJump, "wall" during a wall run,
\* "double" while hasDoubleJump, and "none".
JumpKind(state, in, can, double) ==
    IF in.key # "space" THEN "none"
    ELSE IF can THEN "first"
    ELSE IF state.wallRunning THEN "wall"
    ELSE IF double THEN "double"
    ELSE "none"

\* The flags after the jump of handleInput().
AfterJump(state, kind) ==
    CASE kind = "first"  -> [state EXCEPT !.jumping = TRUE, !.doubleJumping = FALSE,
                                          !.sliding = FALSE]
      [] kind = "wall"   -> [state EXCEPT !.jumping = TRUE, !.wallRunning = FALSE]
      [] kind = "double" -> [state EXCEPT !.doubleJumping = TRUE]
      [] OTHER           -> state

\* updateMovementState(), and the same test of the velocity in updatePlayer().
UpdateMovementState(state, velocity, can) ==
    IF velocity = "down" THEN [state EXCEPT !.falling = TRUE, !.jumping = FALSE]
    ELSE IF velocity = "up" THEN [state EXCEPT !.falling = FALSE]
    ELSE IF can THEN [state EXCEPT !.falling = FALSE, !.jumping = FALSE,
                                   !.doubleJumping = FALSE]
    ELSE state

\* The flags restartPlayer() resets.
Restarted(state) ==
    [state EXCEPT !.jumping = FALSE, !.falling = FALSE, !.doubleJumping = FALSE,
                  !.wallRunning = FALSE]

\* The position updatePlayer() hands to sendPlayerPosition: the body's place, and
\* playerBody.rotation || 0, playerBody.animation || 'idle'.
SentPosition(animation) ==
    [t |-> "obj", x |-> 1, y |-> 2, z |-> 3, rotation |-> 0,
     animation |-> IF Truthy(animation) THEN animation.v ELSE "idle"]

\* Variant: the animation stored for the network is the one of the frame before.
StoredAnimationStale(returned) == bodyAnimation

\* playerBody.animation = animation
StoredAnimation(returned) == [t |-> "string", v |-> returned]

\* updatePlayer(deltaTime), one frame: handleInput(), the test for falling, the
\* character's animation when window.character is there and initialized, handleFall()
\* when the body is below the map, and the position for the network while
\* window.network.isConnected().
UpdatePlayer(in) ==
    /\ PossibleInput(in)
    /\ \E kind \in {JumpKind(BeforeJump(movementState, in), in, canJump, hasDoubleJump)} :
       \E velocity \in {IF kind = "none" THEN in.velocity ELSE "up"} :
       \E can \in {canJump /\ kind # "first"} :
       \E state \in {UpdateMovementState(AfterJump(BeforeJump(movementState, in), kind),
                                         velocity, can)} :
          /\ firstJumpFrom' = IF kind # "first" THEN "none"
                              ELSE IF onSurface THEN "surface" ELSE "air"
          /\ hasDoubleJump' = IF kind \in {"first", "wall"} THEN TRUE
                              ELSE IF kind = "double" THEN FALSE
                              ELSE hasDoubleJump
          /\ IF hasCharacter /\ isCharacterInitialized
             THEN /\ UpdateCharacterAnimation(state)
                  /\ bodyAnimation' = StoredAnimation(currentAnimation')
             ELSE UNCHANGED <<currentAnimation, targetAnimation, bodyAnimation>>
          /\ movementState' = IF in.fallen THEN Restarted(state) ELSE state
          /\ canJump' = (can /\ ~in.fallen)
          /\ onSurface' = (onSurface /\ kind = "none")
    /\ lastWrite' = IF isConnected /\ CanSend
                    THEN PositionMessage(SentPosition(bodyAnimation'))
                    ELSE lastWrite
    /\ UNCHANGED <<characterAnimations, hasSetLoop, isCharacterInitialized, serverVars,
                   socketState, clientId, isConnected, otherPlayers, otherPlayerMeshes,
                   sceneMeshes, hasCharacter, attemptWhileLive, timers, idReceived, uncaught, frameRendered,
                   lastCleanup, sinceClose, attemptsSinceClose, attemptPhase, discarded,
                   tornDown>>

\* handleCollision(event) for a static body: a contact whose normal points up enables
\* the jump; a contact with a wall starts a wall run when checkWallRun allows it
\* (ready: the wall run cooldown is over); any other contact changes nothing.
HandleCollision(contact, ready) ==
    /\ contact \in {"top", "wall"}
    /\ IF contact = "top"
       THEN /\ canJump' = TRUE
            /\ hasDoubleJump' = FALSE
            /\ movementState' = Restarted(movementState)
            /\ onSurface' = TRUE
       ELSE /\ movementState' =
                  IF movementState.moving /\ ~canJump /\ ready
                  THEN [movementState EXCEPT !.wallRunning = TRUE]
                  ELSE movementState
            /\ UNCHANGED <<canJump, hasDoubleJump, onSurface>>
    /\ UNCHANGED <<characterAnimations, hasSetLoop, currentAnimation,
                   isCharacterInitialized, targetAnimation, bodyAnimation, firstJumpFrom,
                   serverVars, clientVars>>

\* The body leaves the surface it stood on without a jump: it walks over an edge. No
\* handler runs.
LeaveSurface ==
    /\ onSurface
    /\ onSurface' = FALSE
    /\ UNCHANGED <<characterAnimations, hasSetLoop, currentAnimation,
                   isCharacterInitialized, targetAnimation, movementState, canJump,
                   hasDoubleJump, bodyAnimation, firstJumpFrom, serverVars, clientVars>>

\* restartPlayer(), as restartGame() calls it: the body is put above the start.
RestartPlayer ==
    /\ canJump' = FALSE
    /\ movementState' = Restarted(movementState)
    /\ onSurface' = FALSE
    /\ UNCHANGED <<characterAnimations, hasSetLoop, currentAnimation,
                   isCharacterInitialized, targetAnimation, hasDoubleJump, bodyAnimation,
                   firstJumpFrom, serverVars, clientVars>>

\* The game of one player on the page of index.html, which loads character.js and the
\* stub loader: the model loads, the network connects, the body collides and leaves
\* surfaces, the game restarts the player, and frames run.
PlayerNext ==
    \/ ModelLoaded(StubModel)
    \/ InitNetwork
    \/ SocketOpen
    \/ \E contact \in {"top", "wall"} : \E ready \in BOOLEAN : HandleCollision(contact, ready)
    \/ LeaveSurface
    \/ RestartPlayer
    \/ \E in \in FrameInputs : UpdatePlayer(in)

PlayerSpec == AnimationInit /\ [][PlayerNext]_vars

----------------------------------------------------------------------------
(* Properties of the server *)

\* The step is one run of the interval callback: no other handler leaves all of the
\* registry, the sockets and the handlers' records as they are.
TickStep ==
    UNCHANGED <<clients, clientIdOf, readyState, closeFired, errorFired, lastPayload,
                errorLogged>>

\* Socket c has a session in the registry.
Registered(c) == \E id \in DOMAIN clients : clients[id].ws = c

PositionMessageOf(p) == [kind |-> "json", data |-> [t |-> "obj", type |-> "position", position |-> p]]

MalformedMessages == {m \in InboundMessages : ~IsPositionMessage(m)}

\* C1: at every broadcast tick the keys of the encoded positions message are exactly
\* the ids registered at that tick.
C1_SnapshotKeysAreRegistry ==
    [][(TickStep /\ clients # <<>>) =>
          /\ lastBroadcast'.type = "positions"
          /\ DOMAIN lastBroadcast'.positions = {Key(id) : id \in DOMAIN clients}]_vars

\* C2: last write wins. At a tick, for every connection A whose session last took a
\* well-formed position payload, the message built holds that payload, unaltered,
\* under A's id, and it is written to every other open connection.
C2_LastWriteWins ==
    [][TickStep =>
          \A a \in Conns :
              lastPayload[a] \in PositionObjects =>
                  /\ lastBroadcast'.type = "positions"
                  /\ Key(clientIdOf[a]) \in DOMAIN lastBroadcast'.positions
                  /\ lastBroadcast'.positions[Key(clientIdOf[a])] = lastPayload[a]
                  /\ \A b \in Conns \ {a} :
                        readyState[b] = "OPEN" => Count(lastWrites', b) = 1]_vars

C2_Witness ==
    /\ Len(clientIdOf) = 2
    /\ lastPayload[1] = WalkState
    /\ lastBroadcast.type = "positions"
    /\ Key(clientIdOf[1]) \in DOMAIN lastBroadcast.positions
    /\ lastBroadcast.positions[Key(clientIdOf[1])] = WalkState
    /\ Count(lastWrites, 2) = 1

\* C3: the first write to every accepted connection is its id message, and no later
\* write to it is an id message.
C3_IdFirstAndOnce ==
    \A c \in Conns :
        /\ Len(sent[c]) >= 1
        /\ sent[c][1] = IdMessage(clientIdOf[c])
        /\ \A i \in 2..Len(sent[c]) : sent[c][i].type # "id"

C3_Witness == \E c \in Conns : Len(sent[c]) = 2 /\ sent[c][2] = BroadcastWrite

\* C4: the id given to a newly accepted connection is above every id given before
\* and is not a key of the registry when it is inserted.
C4_IdsNeverCollide ==
    [][Len(clientIdOf') > Len(clientIdOf) =>
          LET id == clientIdOf'[Len(clientIdOf')] IN
          /\ id \notin DOMAIN clients
          /\ \A c \in Conns : clientIdOf[c] < id]_vars

C4_Witness ==
    /\ Len(clientIdOf) = 2
    /\ clientIdOf[1] \notin DOMAIN clients
    /\ clientIdOf[2] \in DOMAIN clients
    /\ clientIdOf[1] < clientIdOf[2]

\* C5: a close or error event of connection c removes c's session and no other; when
\* the other of the two events has fired before, the registry is left unchanged.
C5_RemovedExactlyOnce ==
    [][\A c \in Conns :
          (closeFired'[c] # closeFired[c] \/ errorFired'[c] # errorFired[c]) =>
              /\ DOMAIN clients' = DOMAIN clients \ {clientIdOf[c]}
              /\ \A k \in DOMAIN clients' : clients'[k] = clients[k]
              /\ (closeFired[c] \/ errorFired[c]) => clients' = clients]_vars

C5_Witness ==
    \E c \in Conns : closeFired[c] /\ errorFired[c] /\ clients # <<>>

\* C6: a message that is unparseable or not a position message leaves the registry,
\* every lastState and every readyState as they were, and a well-formed position
\* message from the same connection is applied afterwards.
C6_MalformedDroppedAlone ==
    /\ [][(clients' # clients \/ readyState' # readyState) =>
             \A c \in Conns : \A m \in MalformedMessages : ~OnMessage(c, m)]_vars
    /\ [](\A c \in Conns : \A p \in PositionObjects :
             clientIdOf[c] \in DOMAIN clients =>
                 MessageHandler(clients, clientIdOf[c], PositionMessageOf(p))
                     [clientIdOf[c]].position = p)

C6_Witness ==
    /\ errorLogged
    /\ Len(clientIdOf) = 1
    /\ readyState[1] = "OPEN"
    /\ clientIdOf[1] \in DOMAIN clients
    /\ clients[clientIdOf[1]].position = WalkState

\* C7: a tick with a non-empty registry writes exactly one positions message to
\* every registered connection that is open and none to any other connection.
C7_OneWritePerOpenConnection ==
    [][(TickStep /\ clients # <<>>) =>
          /\ lastBroadcast'.type = "positions"
          /\ \A c \in Conns :
                /\ Count(lastWrites', c) =
                      (IF Registered(c) /\ readyState[c] = "OPEN" THEN 1 ELSE 0)
                /\ Count(lastWrites', c) = 1 => sent'[c][Len(sent'[c])] = BroadcastWrite
                /\ Count(lastWrites', c) = 0 => sent'[c] = sent[c]]_vars

\* The last tick found socket 1 registered and closing and socket 2 open: it wrote
\* to socket 2 alone.
C7_Witness ==
    /\ Len(clientIdOf) = 2
    /\ lastBroadcast.type = "positions"
    /\ Key(clientIdOf[1]) \in DOMAIN lastBroadcast.positions
    /\ readyState[1] = "CLOSING"
    /\ lastWrites = <<2>>

\* C8: a tick that finds the registry empty writes to no socket and builds no message.
C8_EmptyRegistryTickIsSilent ==
    [][(TickStep /\ clients = <<>>) =>
          /\ lastWrites' = <<>>
          /\ lastBroadcast' = NoMessage
          /\ sent' = sent]_vars

\* Socket 1 got a broadcast, so a tick built a message; the last tick built none.
C8_Witness ==
    /\ clients = <<>>
    /\ Len(clientIdOf) >= 1
    /\ sent[1][Len(sent[1])] = BroadcastWrite
    /\ lastBroadcast = NoMessage
    /\ lastWrites = <<>>

\* C9: a message received on connection c adds and removes no registry entry and
\* changes no lastState but that of c's own session.
C9_MessageTouchesOwnSessionOnly ==
    [][clients' # clients =>
          \A c \in Conns : \A m \in InboundMessages :
              OnMessage(c, m) =>
                  /\ DOMAIN clients' = DOMAIN clients
                  /\ \A id \in DOMAIN clients :
                        /\ clients'[id].ws = clients[id].ws
                        /\ id # clientIdOf[c] => clients'[id] = clients[id]]_vars

C9_Witness ==
    /\ Len(clientIdOf) = 2
    /\ DOMAIN clients = {clientIdOf[1], clientIdOf[2]}
    /\ clients[clientIdOf[1]].position = InitialPosition
    /\ clients[clientIdOf[2]].position = WalkState

----------------------------------------------------------------------------
(* Properties of the client *)

\* C10: after the client handles a positions snapshot, its cache of remote entities
\* holds no key that is absent from the snapshot, and the mesh of every entry that
\* left the cache has left the scene.
C10_AbsentPeersDisposed ==
    [][\A m \in Snapshots :
          SocketMessage(Received(m)) =>
              /\ DOMAIN otherPlayerMeshes' \subseteq DOMAIN m.positions
              /\ \A k \in DOMAIN otherPlayerMeshes \ DOMAIN m.positions :
                    otherPlayerMeshes[k].mesh \notin sceneMeshes']_vars

\* The key is the key of the client's own id in a positions object.
IsLocalKey(key) == clientId.t = "number" /\ key = Key(clientId.v)

\* C11: once the client has its id, handling a snapshot leaves no entry for the local
\* id in the stored positions or in the cache of remote entities.
C11_LocalIdSkipped ==
    [][\A m \in Snapshots :
          (clientId.t = "number" /\ SocketMessage(Received(m))) =>
              /\ Key(clientId.v) \notin DOMAIN otherPlayers'
              /\ Key(clientId.v) \notin DOMAIN otherPlayerMeshes']_vars

\* C12: after the client handles a snapshot, every peer key in it other than the local
\* id has one remote entity in the cache, with a mesh of its own in the scene, placed
\* at the snapshot's position; and no entity exists for a key that no snapshot held.
C12_EntityPerPeer ==
    /\ [][\A m \in Snapshots :
             SocketMessage(Received(m)) =>
                 \A k \in DOMAIN m.positions :
                     ~IsLocalKey(k) =>
                         /\ k \in DOMAIN otherPlayerMeshes'
                         /\ otherPlayerMeshes'[k].mesh \in sceneMeshes'
                         /\ \A j \in DOMAIN otherPlayerMeshes' \ {k} :
                               otherPlayerMeshes'[j].mesh # otherPlayerMeshes'[k].mesh
                         /\ m.positions[k] # JNull =>
                               otherPlayerMeshes'[k].at =
                                   <<m.positions[k].x, m.positions[k].y, m.positions[k].z>>]_vars
    /\ [](DOMAIN otherPlayerMeshes \subseteq DOMAIN otherPlayers)

\* C13: reconcile is idempotent. From every cache the client reaches and for every
\* snapshot, handling the snapshot a second time leaves the stored positions, the
\* entities, their lastAnimation and the scene as the first time left them, and
\* creates no mesh, removes none and logs no animation change.
C13_ReconcileIdempotent ==
    \A m \in Snapshots :
        LET once  == AfterUpdateOtherPlayers(otherPlayers, otherPlayerMeshes, sceneMeshes,
                                             m.positions, clientId, hasCharacter)
            twice == AfterUpdateOtherPlayers(once.players, once.meshes, once.scene,
                                             m.positions, clientId, hasCharacter)
        IN /\ twice = once
           /\ ReconcileEvents(once.players, once.meshes, once.scene, m.positions, clientId,
                              hasCharacter)
                 = [created |-> 0, removed |-> 0, animation |-> 0]

\* The cache holds a walking entity a snapshot has made, and that snapshot comes again.
C13_Witness ==
    /\ \E k \in DOMAIN otherPlayerMeshes : otherPlayerMeshes[k].lastAnimation = "walk"
    /\ \E m \in Snapshots :
          /\ DOMAIN m.positions = DOMAIN otherPlayerMeshes
          /\ AfterUpdateOtherPlayers(otherPlayers, otherPlayerMeshes, sceneMeshes,
                                     m.positions, clientId, hasCharacter)
                = [players |-> otherPlayers, meshes |-> otherPlayerMeshes,
                   scene |-> sceneMeshes]

\* C14: the first connection attempt is made at module start; after a socket error the
\* client becomes disconnected with a retry scheduled; a client whose socket has
\* closed is disconnected with a retry scheduled until the next socket is made; and
\* every scheduled retry is followed by a connectToServer() call.
C14_ReconnectsAfterFailure ==
    /\ <>(socketState # "NONE" \/ timers # <<>>)
    /\ (socketState = "FAILED") ~> (~isConnected /\ timers # <<>>)
    /\ [](socketState = "CLOSED" => (~isConnected /\ timers # <<>>))
    /\ \A b \in {0, 1} : (timers # <<>> /\ attemptPhase = b) ~> (attemptPhase # b)

\* A connection that had its id was closed, and the retry has made the next socket.
C14_Witness ==
    /\ socketState = "CONNECTING"
    /\ clientId.t = "number"
    /\ sinceClose >= ReconnectDelay
    /\ attemptsSinceClose = 1
    /\ timers = <<>>

\* C15: after an onclose at time T no connectToServer() call is made before
\* T + ReconnectDelay, and exactly one is made at T + ReconnectDelay.
C15_OneAttemptAfterDelay ==
    /\ sinceClose \in 0..(ReconnectDelay - 1) => attemptsSinceClose = 0
    /\ sinceClose = ReconnectDelay + 1 => attemptsSinceClose = 1
    /\ attemptsSinceClose <= 1

\* The delay has passed, the one attempt has failed in the constructor and the next
\* is scheduled.
C15_Witness ==
    /\ sinceClose = ReconnectDelay + 1
    /\ attemptsSinceClose = 1
    /\ socketState = "CLOSED"
    /\ timers # <<>>

\* C16: a write to the socket happens only in a sendPlayerPosition call made while
\* isConnected is true and the socket is open, and it is the state that call was
\* given; a new socket starts with nothing written or queued.
C16_SendOnlyWhileConnected ==
    [][lastWrite' # lastWrite =>
          \/ /\ socketState' = "CONNECTING"
             /\ socketState # "CONNECTING"
             /\ lastWrite' = NoMessage
          \/ /\ isConnected
             /\ socketState = "OPEN"
             /\ \E position \in LocalStates :
                   /\ SendPlayerPosition(position)
                   /\ lastWrite' = PositionMessage(position)]_vars

\* After a reconnection, before the new id message, the client has sent a state.
C16_Witness ==
    /\ isConnected
    /\ socketState = "OPEN"
    /\ clientId.t = "number"
    /\ ~idReceived
    /\ lastWrite = PositionMessage(WalkState)

\* C17: while a connection is connected and has not delivered its id message the
\* local id is unset, and once it has, the id does not change while the connection
\* stays connected.
C17_IdUnsetUntilAssigned ==
    /\ []((isConnected /\ ~idReceived) => clientId = JNull)
    /\ [][(isConnected /\ idReceived /\ isConnected' /\ idReceived') =>
             clientId' = clientId]_vars

\* C18: while the client is not connected it has no stored position, no remote
\* entity and no remote mesh in the scene.
C18_CacheEmptyWhileDisconnected ==
    ~isConnected => (otherPlayers = <<>> /\ otherPlayerMeshes = <<>> /\ sceneMeshes = {})

\* The last onclose took remote meshes from the scene.
C18_Witness ==
    /\ ~isConnected
    /\ socketState = "CLOSED"
    /\ lastCleanup >= 1

\* C19: after the page has closed the connection on purpose no reconnect callback is
\* pending and no new socket is made.
C19_TeardownCancelsReconnect ==
    tornDown => (timers = <<>> /\ socketState = "CLOSED")

\* C20: handling a message the client has no use for logs and drops it: the local id,
\* the connection state, the stored positions, the entities and the scene stay as
\* they are and no exception leaves the handler; the id message or the snapshot that
\* comes next is handled.
C20_UnusableMessageDiscarded ==
    /\ [][\A m \in UnusableMessages :
             SocketMessage(m) =>
                 /\ discarded'
                 /\ clientId' = clientId
                 /\ isConnected' = isConnected
                 /\ socketState' = socketState
                 /\ otherPlayers' = otherPlayers
                 /\ otherPlayerMeshes' = otherPlayerMeshes
                 /\ sceneMeshes' = sceneMeshes
                 /\ uncaught' = uncaught]_vars
    /\ [][\A id \in 1..MaxConns :
             (discarded /\ SocketMessage(Received(IdMessage(id)))) =>
                 /\ clientId' = [t |-> "number", v |-> id]
                 /\ ~discarded']_vars
    /\ [](discarded =>
             \A m \in Snapshots :
                 /\ ~Discards(Received(m))
                 /\ \A k \in KeysStored(m.positions, clientId) :
                       /\ k \in DOMAIN AfterUpdateOtherPlayers(
                                         otherPlayers, otherPlayerMeshes, sceneMeshes,
                                         m.positions, clientId, hasCharacter).players
                       /\ AfterUpdateOtherPlayers(
                              otherPlayers, otherPlayerMeshes, sceneMeshes,
                              m.positions, clientId, hasCharacter).players[k]
                             = StoredEntry(m.positions[k]))

\* A client that has its id and stored positions has just dropped a message.
C20_Witness ==
    /\ discarded
    /\ isConnected
    /\ clientId.t = "number"
    /\ otherPlayers # <<>>

\* C21: every frame reaches the render step, whether the client is connected,
\* disconnected or holds remote peers: a failure of the network layer's per-frame
\* update does not keep renderer.render from running in that frame.
C21_FrameAlwaysRendered == frameRendered

----------------------------------------------------------------------------
(* Properties of the movement state machine *)

\* The states in the order of their priority, and the flag of each. idle has none.
PriorityOrder ==
    <<"dash", "slide", "wallRun", "doubleJump", "jump", "fall", "run", "walk", "idle">>

FlagOf == [dash |-> "dashing", slide |-> "sliding", wallRun |-> "wallRunning",
           doubleJump |-> "doubleJumping", jump |-> "jumping", fall |-> "falling",
           run |-> "running", walk |-> "moving"]

\* state calls for the state name: the flag of name is true; for run, when runMoves,
\* moving is true as well.
CallsFor(state, name, runMoves) ==
    \/ name = "idle"
    \/ /\ name # "idle"
       /\ state[FlagOf[name]]
       /\ (name = "run" /\ runMoves) => state.moving

\* The first state of the priority order that state calls for.
HighestPriority(state, runMoves) ==
    PriorityOrder[CHOOSE i \in 1..Len(PriorityOrder) :
                     /\ CallsFor(state, PriorityOrder[i], runMoves)
                     /\ \A j \in 1..(i - 1) : ~CallsFor(state, PriorityOrder[j], runMoves)]

\* A flag above run in the priority order is true.
HigherThanRun(state) ==
    \/ state.dashing \/ state.sliding \/ state.wallRunning
    \/ state.doubleJumping \/ state.jumping \/ state.falling

\* C22 as stated: the target chosen is the state of the highest-priority true flag in
\* the order dash > slide > wallRun > doubleJump > jump > fall > run > walk > idle,
\* running being the flag of run and moving the flag of walk.
C22_HighestPriorityFlag ==
    targetAnimation # "none" => targetAnimation = HighestPriority(movementState, FALSE)

\* C22, amended: the target chosen is the first state in the order dash > slide >
\* wallRun > doubleJump > jump > fall > run > walk > idle that the flags call for,
\* where run is called for by running and moving together; with jumping and running
\* true and no flag above jump the target is jump, and it is neither jump nor fall
\* while dashing, sliding or wallRunning is true.
C22_HighestPriorityState ==
    targetAnimation # "none" =>
        /\ targetAnimation = HighestPriority(movementState, TRUE)
        /\ (/\ movementState.jumping
            /\ movementState.running
            /\ ~movementState.dashing
            /\ ~movementState.sliding
            /\ ~movementState.wallRunning
            /\ ~movementState.doubleJumping) => targetAnimation = "jump"
        /\ (movementState.dashing \/ movementState.sliding \/ movementState.wallRunning)
              => targetAnimation \notin {"jump", "fall"}

\* The state machine has chosen jump for an actor that jumps while it moves and runs,
\* and whose model has a run animation.
C22_Witness ==
    /\ targetAnimation = "jump"
    /\ movementState.jumping
    /\ movementState.running
    /\ movementState.moving
    /\ HasAnimation(characterAnimations, "run")

\* C25 as stated: with running true and no flag above run true the target is run,
\* whatever moving is; it is walk only when moving is true and running false, and
\* idle only when no flag is true.
C25_RunWheneverRunning ==
    targetAnimation # "none" =>
        /\ (movementState.running /\ ~HigherThanRun(movementState))
              => targetAnimation = "run"
        /\ targetAnimation = "walk" => (movementState.moving /\ ~movementState.running)
        /\ targetAnimation = "idle" => movementState = Standing

\* C25, amended: with no flag above run true, the target is run when moving and
\* running are both true, walk when moving is true and running false, and idle when
\* moving is false, whatever running is; run, walk and idle are the target in no
\* other case.
C25_RunOnlyWhileMoving ==
    targetAnimation # "none" =>
        /\ ~HigherThanRun(movementState) =>
              targetAnimation = IF ~movementState.moving THEN "idle"
                                ELSE IF movementState.running THEN "run"
                                ELSE "walk"
        /\ targetAnimation \in {"run", "walk", "idle"} => ~HigherThanRun(movementState)

\* The state machine has chosen idle for an actor that stands with running true.
C25_Witness ==
    /\ targetAnimation = "idle"
    /\ movementState.running
    /\ ~movementState.moving
    /\ ~HigherThanRun(movementState)

\* The first state with an animation on the chain of fallbacks that starts at name,
\* "none" when the chain ends without one.
RECURSIVE ChainEnd(_, _)
ChainEnd(animations, name) ==
    IF HasAnimation(animations, name) THEN name
    ELSE IF name \in DOMAIN Fallbacks THEN ChainEnd(animations, Fallbacks[name])
    ELSE "none"

\* C23: when the chosen target has no animation, the state selected is the first
\* state with an animation on the target's chain of fallbacks (dash -> run, slide ->
\* run, wallRun -> jump, doubleJump -> jump, jump -> idle, fall -> idle, run -> walk,
\* walk -> idle); a sliding actor whose animations lack slide and run has walk
\* selected if there is a walk animation and idle otherwise.
C23_FallbackChainFollowed ==
    (/\ targetAnimation # "none"
     /\ ~HasAnimation(characterAnimations, targetAnimation)
     /\ ChainEnd(characterAnimations, targetAnimation) # "none")
    => /\ currentAnimation = ChainEnd(characterAnimations, targetAnimation)
       /\ (/\ targetAnimation = "slide"
           /\ ~HasAnimation(characterAnimations, "run"))
          => currentAnimation = IF HasAnimation(characterAnimations, "walk")
                                THEN "walk" ELSE "idle"

\* C24: when the chain of fallbacks of the chosen target ends without a state that has
\* an animation, the call changes nothing: the state it returns is the state held
\* before it.
C24_ExhaustedChainHoldsState ==
    [][(/\ targetAnimation' # "none"
        /\ ChainEnd(characterAnimations, targetAnimation') = "none")
       => currentAnimation' = currentAnimation]_vars

----------------------------------------------------------------------------
(* Properties of the player *)

\* C30: a first jump starts only while the body stands on the ground or a tile: after
\* the body has left a surface without a jump, Space in mid-air starts no first jump
\* before the next landing.
C30_FirstJumpFromSurface == firstJumpFrom # "air"

\* C26: the position message a frame writes to the socket carries, as its animation,
\* the state the movement state machine holds after that frame's call: the last
\* message written is that of the last frame, and no other step changes the state.
C26_SentAnimationIsSelected ==
    lastWrite # NoMessage => lastWrite.position.animation = currentAnimation

\* A frame has sent the state the state machine selected for a running actor, which is
\* not the state a message without one would carry.
C26_Witness ==
    /\ lastWrite # NoMessage
    /\ targetAnimation = "run"
    /\ lastWrite.position.animation = "run"
    /\ bodyAnimation = [t |-> "string", v |-> "run"]
    /\ movementState.running

----------------------------------------------------------------------------
(* Properties of the remote entities' animation *)

\* The animation value of a snapshot entry, idle when it has none.
SnapshotAnimation(position) ==
    IF position = JNull THEN "idle" ELSE AnimationOr(position)

\* The animation updateOtherPlayers is to leave on the entity of key k: that of the
\* snapshot's entry, or of the stored position when the snapshot has no entry.
ExpectedAnimation(players, positions, k) ==
    IF k \in DOMAIN positions THEN SnapshotAnimation(positions[k]) ELSE players[k].animation

\* Every player, old or in the snapshot, has an entity that shows its animation already.
AnimationsCurrent(players, meshes, positions, cid) ==
    \A k \in DOMAIN players \cup {j \in DOMAIN positions : ~StrictlyEqualsKey(cid, j)} :
        /\ k \in DOMAIN meshes
        /\ k \in DOMAIN players \cup DOMAIN positions
        /\ meshes[k].lastAnimation = ExpectedAnimation(players, positions, k)

\* C27: after updateOtherPlayers has handled a snapshot, the lastAnimation of every
\* remote entity the snapshot has an entry for is that entry's animation value, idle
\* when it has none; and when every entity shows its player's animation already, no
\* animation change is logged.
C27_LastAnimationFollowsSnapshot ==
    \A m \in Snapshots :
        LET after == AfterUpdateOtherPlayers(otherPlayers, otherPlayerMeshes, sceneMeshes,
                                             m.positions, clientId, hasCharacter)
        IN /\ \A k \in DOMAIN after.meshes \cap DOMAIN m.positions :
                 after.meshes[k].lastAnimation = SnapshotAnimation(m.positions[k])
           /\ AnimationsCurrent(otherPlayers, otherPlayerMeshes, m.positions, clientId)
              => ReconcileEvents(otherPlayers, otherPlayerMeshes, sceneMeshes, m.positions,
                                 clientId, hasCharacter).animation = 0

----------------------------------------------------------------------------
(* Properties of the reconnect cycle *)

\* C28: whatever the order of the open, close, error and timer events, at most one
\* reconnect callback is pending, none is pending while the socket is connecting or
\* open, and no connectToServer() call has begun while the socket made by the call
\* before it was connecting or open: the client has one connecting or open socket at
\* most.
C28_OneTimerOneSocket ==
    /\ Len(timers) <= 1
    /\ timers # <<>> => socketState \notin {"CONNECTING", "OPEN"}
    /\ ~attemptWhileLive

\* A reconnect attempt has made a socket after a close, and no callback is left.
C28_Witness ==
    /\ socketState = "CONNECTING"
    /\ sinceClose = ReconnectDelay
    /\ timers = <<>>

----------------------------------------------------------------------------
(* Properties of a message that arrives after its session was removed *)

\* The session of connection c has been removed by its close or error handler.
SessionRemoved(c) == clientIdOf[c] \notin DOMAIN clients

\* C29: in every state, a message handled for a connection whose session has been
\* removed leaves the registry as it was, no session made again and none changed;
\* when it is a position message the handler throws inside its try and the catch
\* logs it; and once a session has been removed and a failure logged, the interval
\* callback can still run.
C29_LateMessageContained ==
    /\ \A c \in Conns : \A message \in InboundMessages :
          SessionRemoved(c) =>
              /\ MessageHandler(clients, clientIdOf[c], message) = clients
              /\ IsPositionMessage(message) =>
                    MessageHandlerThrows(clients, clientIdOf[c], message)
    /\ (errorLogged /\ \E c \in Conns : SessionRemoved(c)) => ENABLED BroadcastTick

\* The session of one connection is gone, a handler has logged a failure, and the last
\* run of the interval callback has written to the session that is left.
C29_Witness ==
    /\ errorLogged
    /\ \E c \in Conns : errorFired[c] /\ SessionRemoved(c)
    /\ clients # <<>>
    /\ lastWrites # <<>>

====
